---- MODULE Spec2Model ----
(***************************************************************************)
(* Model of the "Flag Leak" tooling of sevkaz/AICTF_2025:                   *)
(*   - youtube_extractor.py      metadata retry loop, sort, CSV export     *)
(*   - video_flag_extractor.py   OCR pipeline (description, subtitles,     *)
(*                               frames) for one video                     *)
(*   - VLMs/Youtube_Flag_VLM.py  vision-language pipeline for one video    *)
(*   - main() of the two scanning scripts: resolve, sort, visit            *)
(* One run executes one program; `script' says which.                      *)
(***************************************************************************)
EXTENDS Integers, Sequences, FiniteSets, TLC

VARIABLES
    script,                 \* which program this run executes
    pc,                     \* position of the running program
    \* ---- youtube_extractor.get_and_sort_youtube_videos
    youtube_links,          \* number of harvested links; link k is 1..youtube_links
    i,                      \* index of the link being resolved (1-based)
    attempt,                \* the retry counter of the while loop
    video_data,             \* resolved references, in list order
    pauses,                 \* link -> sequence of time.sleep arguments (history)
    fetches,                \* link -> number of extract_info calls (history)
    outcome,                \* link -> how its resolution ended (history)
    csv_rows,               \* rows written to the CSV file
    \* ---- scan_video (both scanning scripts)
    video,                  \* the video being scanned and what the outside world holds for it
    fs,                     \* files present on disk
    created,                \* files written while processing this video (history)
    info_dict,              \* what extract_info(download=True) returned
    downloaded_video_path,  \* local media path used by scan_video
    frames,                 \* the list returned by extract_frames_every_n_seconds
    fidx,                   \* index of the next frame of `frames' to recognise
    flag,                   \* token found so far (<<>> is None)
    source,                 \* channel that produced `flag'
    result,                 \* value returned by scan_video
    recognised,             \* offsets handed to the recognizer (history)
    events,                 \* failures injected by the outside world (history)
    seeks,                  \* (offset, frame index) pairs given to cap.set (history)
    \* ---- main() of the two scanning scripts
    urls,                   \* number of urls read from the file; url k is 1..urls
    midx,                   \* index of the url whose metadata is fetched next
    meta,                   \* url -> what each get_video_metadata call returned (history)
    videos,                 \* the list `videos' of main()
    vidx,                   \* index of the next entry of `videos' to scan
    visited,                \* the scan_video calls made so far, with their outcome (history)
    found_any_flag          \* the flag of the same name in video_flag_extractor.main

batchVars == <<urls, midx, meta, videos, vidx, visited, found_any_flag>>

vars == <<script, pc, youtube_links, i, attempt, video_data, pauses, fetches, outcome, csv_rows,
          video, fs, created, info_dict, downloaded_video_path, frames, fidx, flag,
          source, result, recognised, events, seeks, batchVars>>

resolverVars == <<youtube_links, i, attempt, video_data, pauses, fetches, outcome, csv_rows>>
scanVars == <<video, fs, created, info_dict, downloaded_video_path, frames, fidx, flag,
              source, result, recognised, events>>

(***************************************************************************)
(* Bounds of the model.                                                     *)
(***************************************************************************)
MaxLinks == 2
MaxUrls == 3
MaxDate == 3
MaxTotalFrames == 3
LongOffset == 12

(***************************************************************************)
(* Program constants.                                                       *)
(***************************************************************************)
initial_delay == 30
max_retries == 3
DefaultFps == 30
OcrMinTail == 4
TextMinTail == 1
interval == 1

(***************************************************************************)
(* Text.  A text is a sequence of one-character strings.                    *)
(***************************************************************************)
UpperLetters == {"A", "B", "F", "G", "L", "X", "Y", "Z"}
LowerLetters == {"a", "b", "f", "g", "l", "h", "i", "x", "y", "z"}
Digits == {"1", "2", "6", "7", "8", "9"}

\* str.upper() on one character
ToUpper(c) ==
    CASE c = "a" -> "A" [] c = "b" -> "B" [] c = "f" -> "F" [] c = "g" -> "G"
      [] c = "l" -> "L" [] c = "h" -> "H" [] c = "i" -> "I" [] c = "x" -> "X"
      [] c = "y" -> "Y" [] c = "z" -> "Z" [] OTHER -> c

\* the character class [A-Z0-9_]
OcrClass == UpperLetters \cup {"H", "I"} \cup Digits \cup {"_"}
\* the character class [A-Za-z0-9_]
TextClass == OcrClass \cup LowerLetters

Upper(text) == [k \in 1..Len(text) |-> ToUpper(text[k])]

RECURSIVE Keep(_, _)
\* re.sub(r"[^cls]", "", text)
Keep(text, cls) ==
    IF text = <<>> THEN <<>>
    ELSE IF Head(text) \in cls THEN <<Head(text)>> \o Keep(Tail(text), cls)
         ELSE Keep(Tail(text), cls)

\* video_flag_extractor.py line 109 with the underscore stripped as well
NormalizeMutant(text) == Keep(Upper(text), OcrClass \ {"_"})

\* video_flag_extractor.py line 109
Normalize(text) == Keep(Upper(text), OcrClass)

FlagPrefix == <<"F", "L", "A", "G", "_">>

PrefixAt(text, p) ==
    /\ p + 4 <= Len(text)
    /\ \A k \in 1..5 : text[p + k - 1] = FlagPrefix[k]

RECURSIVE RunLen(_, _, _)
\* length of the maximal run of characters of cls starting at position p
RunLen(text, p, cls) ==
    IF p > Len(text) \/ text[p] \notin cls THEN 0
    ELSE 1 + RunLen(text, p + 1, cls)

MatchAt(text, p, cls, minTail) ==
    PrefixAt(text, p) /\ RunLen(text, p + 5, cls) >= minTail

\* re.search(r"FLAG_[cls]{minTail,}", text): leftmost match, greedy tail;
\* <<>> stands for None
RegexSearch(text, cls, minTail) ==
    LET hits == {p \in 1..Len(text) : MatchAt(text, p, cls, minTail)}
    IN  IF hits = {} THEN <<>>
        ELSE LET p == CHOOSE q \in hits : \A r \in hits : q <= r
             IN  SubSeq(text, p, p + 4 + RunLen(text, p + 5, cls))

\* video_flag_extractor.py line 115, with the quantifier of the text channels
OcrSearchMutant(normalized) == RegexSearch(normalized, OcrClass, TextMinTail)
\* video_flag_extractor.py line 115: re.search(r"FLAG_[A-Z0-9_]{4,}", normalized)
OcrSearch(normalized) == RegexSearch(normalized, OcrClass, OcrMinTail)

\* video_flag_extractor.py lines 130, 150: re.search(r"FLAG_[A-Za-z0-9_]+", text)
TextSearch(text) == RegexSearch(text, TextClass, TextMinTail)

\* "FLAG_" in response
Contains(text) == \E p \in 1..Len(text) : PrefixAt(text, p)

None == <<>>

(***************************************************************************)
(* youtube_extractor.get_and_sort_youtube_videos: the metadata loop         *)
(***************************************************************************)
Links == 1..youtube_links
Dates == 1..MaxDate

\* line 72: the two messages that make a DownloadError retryable
Retryable(kind) == kind \in {"rate-limited", "video unavailable"}
DownloadErrorKinds == {"rate-limited", "video unavailable", "private video"}

\* line 75: the argument of time.sleep, computed from the already incremented counter
SleepMutant(att) == initial_delay * att
SleepSeconds(att) == initial_delay * (att + 1)

\* the for loop moves on with the counter of the previous link left as it is
NextLinkMutant ==
    /\ i' = i + 1
    /\ attempt' = attempt
    /\ pc' = IF i + 1 > youtube_links THEN "r_after_loop" ELSE "r_fetch"

\* the for loop moves on to the next link (or leaves the loop)
NextLink ==
    /\ i' = i + 1
    /\ attempt' = 0
    /\ pc' = IF i + 1 > youtube_links THEN "r_after_loop" ELSE "r_fetch"

CountFetch == fetches' = [fetches EXCEPT ![i] = @ + 1]

\* line 56: the condition of the while loop
RetryBudgetMutant(att) == att <= max_retries
RetryBudget(att) == att < max_retries

LoopGuard == script = "resolver" /\ pc = "r_fetch" /\ i <= youtube_links /\ RetryBudget(attempt)

\* lines 59-66: extract_info succeeds and reports an upload date
RFetchOk ==
    /\ LoopGuard
    /\ \E d \in Dates :
          video_data' = Append(video_data, [link |-> i, date |-> d])
    /\ outcome' = [outcome EXCEPT ![i] = "resolved"]
    /\ CountFetch
    /\ NextLink
    /\ UNCHANGED <<script, batchVars, seeks, youtube_links, pauses, csv_rows, scanVars>>

\* lines 67-69: no upload date; lines 79-81: any other exception (a date that
\* does not parse included); lines 76-78: a DownloadError that is not retryable
SkipReasons == {"no date", "exception"} \cup {k \in DownloadErrorKinds : ~Retryable(k)}

\* lines 59-69, 76-81 with the loop going round again instead of breaking
RFetchSkipMutant ==
    /\ LoopGuard
    /\ \E why \in SkipReasons : outcome' = [outcome EXCEPT ![i] = why]
    /\ CountFetch
    /\ attempt' = attempt + 1
    /\ UNCHANGED <<script, batchVars, seeks, youtube_links, i, pc, video_data, pauses,
                   csv_rows, scanVars>>

RFetchSkip ==
    /\ LoopGuard
    /\ \E why \in SkipReasons : outcome' = [outcome EXCEPT ![i] = why]
    /\ CountFetch
    /\ NextLink
    /\ UNCHANGED <<script, batchVars, seeks, youtube_links, video_data, pauses, csv_rows, scanVars>>

\* lines 70-75, 82-83: a retryable DownloadError
RFetchRetryable ==
    /\ LoopGuard
    /\ \E kind \in DownloadErrorKinds : Retryable(kind)
    /\ CountFetch
    /\ pauses' = [pauses EXCEPT ![i] = Append(@, SleepSeconds(attempt + 1))]
    /\ IF RetryBudget(attempt + 1)
       THEN /\ attempt' = attempt + 1
            /\ UNCHANGED <<i, pc, outcome>>
       ELSE /\ NextLink
            /\ outcome' = [outcome EXCEPT ![i] = "exhausted"]
    /\ UNCHANGED <<script, batchVars, seeks, youtube_links, video_data, csv_rows, scanVars>>

RECURSIVE InsertDescMutant(_, _)
\* insert x before the elements of the same date (descending, ties reversed)
InsertDescMutant(sorted, x) ==
    IF sorted = <<>> THEN <<x>>
    ELSE IF Head(sorted).date > x.date
         THEN <<Head(sorted)>> \o InsertDescMutant(Tail(sorted), x)
         ELSE <<x>> \o sorted

RECURSIVE InsertDesc(_, _)
\* insert x after every element whose date is >= x.date (stable, descending)
InsertDesc(sorted, x) ==
    IF sorted = <<>> THEN <<x>>
    ELSE IF Head(sorted).date >= x.date THEN <<Head(sorted)>> \o InsertDesc(Tail(sorted), x)
         ELSE <<x>> \o sorted

RECURSIVE SortDesc(_)
\* list.sort(key=date, reverse=True): stable, newest first
SortDesc(s) ==
    IF s = <<>> THEN <<>>
    ELSE InsertDesc(SortDesc(SubSeq(s, 1, Len(s) - 1)), s[Len(s)])

\* lines 85-87: nothing resolved, return
REmptyReturn ==
    /\ script = "resolver" /\ pc = "r_after_loop"
    /\ video_data = <<>>
    /\ pc' = "done"
    /\ UNCHANGED <<script, batchVars, seeks, resolverVars, scanVars>>

\* lines 89-104: sort and write the CSV
RSortAndSave ==
    /\ script = "resolver" /\ pc = "r_after_loop"
    /\ video_data # <<>>
    /\ video_data' = SortDesc(video_data)
    /\ csv_rows' = SortDesc(video_data)
    /\ pc' = "done"
    /\ UNCHANGED <<script, batchVars, seeks,
                   youtube_links, i, attempt, pauses, fetches, outcome, scanVars>>

(***************************************************************************)
(* Files.  A file name is a record: its kind, the video id it is derived    *)
(* from (0 when the name holds no id) and the frame offset (-1 when none).  *)
(***************************************************************************)
File(kind, vid, sec) == [kind |-> kind, vid |-> vid, sec |-> sec]
NoPath == File("none", 0, -1)
Mp4(id) == File("mp4", id, -1)                 \* f"{video['id']}.mp4"
OtherMedia(id) == File("other_media", id, -1)  \* a media path the hint did not produce
Vtt(id) == File("en.vtt", id, -1)              \* f"{id}.en.vtt"
FramesDir(id) == File("frames_dir", id, -1)    \* f"frames_{video_id}"
FrameJpg(id, sec) == File("frame_jpg", id, sec)   \* f"{output_dir}/frame_{sec}.jpg"
OcrTxt(id, sec) == File("ocr_txt", id, sec)       \* f"{output_dir}/ocr_{sec}.txt"
TempFrame(sec) == File("temp_frame", 0, sec)      \* f"temp_frame_{sec}.jpg"

(***************************************************************************)
(* The outside world of one scan_video call.                               *)
(***************************************************************************)
TxtPlain == <<"h", "i">>
\* "x FLAG_aB y": a token with a tail of 2 characters
TxtShortFlag == <<"x", " ", "F", "L", "A", "G", "_", "a", "B", " ", "y">>
\* "FLAG_ab_12 z"
TxtLongFlag == <<"F", "L", "A", "G", "_", "a", "b", "_", "1", "2", " ", "z">>
\* "FLAG_Zz98"
TxtSubFlag == <<"F", "L", "A", "G", "_", "Z", "z", "9", "8">>
\* "fl ag_9z-8y": recognition noise around FLAG_9Z8Y
TxtNoisy == <<"f", "l", " ", "a", "g", "_", "9", "z", "-", "8", "y">>
\* "FLAG9Z8Y": no underscore
TxtNoUnderscore == <<"F", "L", "A", "G", "9", "Z", "8", "Y">>
\* "FLAG_9z h": a tail of 2 characters
TxtShortFrame == <<"F", "L", "A", "G", "_", "9", "z", " ", "h">>
\* "flag9z8y 7x6": normalizes to FLAG9Z8Y7X6
TxtFrameNoUnderscore == <<"f", "l", "a", "g", "9", "z", "8", "y", " ", "7", "x", "6">>
\* "flag_9z8y-7x6": normalizes to FLAG_9Z8Y7X6
TxtFrameFlag == <<"f", "l", "a", "g", "_", "9", "z", "8", "y", "-", "7", "x", "6">>

\* info.get("description", ""): a string, or None
DescValues ==
    {[isNone |-> TRUE, text |-> <<>>]} \cup
    {[isNone |-> FALSE, text |-> t] : t \in {TxtPlain, TxtShortFlag, TxtLongFlag}}

VideoId == 1
OtherId == 2

\* subtitle files the download writes: which ids name a file, the content of
\* each, and the id the download metadata reports
SubText(a, b) == [k \in {VideoId, OtherId} |-> IF k = VideoId THEN a ELSE b]
SubCases ==
    { [infoId |-> VideoId, files |-> {}, text |-> SubText(<<>>, <<>>)],
      [infoId |-> VideoId, files |-> {VideoId}, text |-> SubText(TxtPlain, <<>>)],
      [infoId |-> VideoId, files |-> {VideoId}, text |-> SubText(TxtSubFlag, <<>>)],
      [infoId |-> OtherId, files |-> {OtherId}, text |-> SubText(<<>>, TxtSubFlag)],
      [infoId |-> OtherId, files |-> {VideoId, OtherId}, text |-> SubText(TxtPlain, TxtSubFlag)] }

FrameTexts == {TxtNoisy, TxtNoUnderscore, TxtShortFrame}

\* frame rate (a rational fpsNum / fpsDen) and frame count reported by the stream
StreamCases ==
    {[fpsNum |-> 0, fpsDen |-> 1, total |-> t] : t \in {0, 1, DefaultFps, 2 * DefaultFps}}
    \cup {[fpsNum |-> 1, fpsDen |-> 1, total |-> t] : t \in 0..MaxTotalFrames}
    \cup {[fpsNum |-> 3, fpsDen |-> 2, total |-> MaxTotalFrames]}
NoStream == [fpsNum |-> -1, fpsDen |-> 1, total |-> -1]

\* The text shown in the picture: nothing before offset textFrom, frameTxt from there on
Videos ==
    [id : {VideoId}, description : DescValues, subs : SubCases,
     frameTxt : FrameTexts, textFrom : 0..MaxTotalFrames - 1,
     stale : BOOLEAN, stream : {NoStream}]
\* a longer video without description and subtitles, one frame per second, whose
\* picture shows a text at offset LongOffset, its last sampled offset
LongStream == [fpsNum |-> 1, fpsDen |-> 1, total |-> LongOffset + 1]
LongVideos ==
    [id : {VideoId}, description : {[isNone |-> FALSE, text |-> <<>>]},
     subs : {[infoId |-> VideoId, files |-> {}, text |-> SubText(<<>>, <<>>)]},
     frameTxt : {TxtFrameNoUnderscore, TxtFrameFlag}, textFrom : {LongOffset},
     stale : {FALSE}, stream : {NoStream}]
StreamsOf(v) == IF v.textFrom = LongOffset THEN {LongStream} ELSE StreamCases

\* the offsets at which the outside world makes a decode, a recognition or a
\* frame removal fail
MayFail(sec) == sec < MaxTotalFrames

NoVideo ==
    [id |-> 0, description |-> [isNone |-> FALSE, text |-> <<>>],
     subs |-> [infoId |-> 0, files |-> {}, text |-> SubText(<<>>, <<>>)],
     frameTxt |-> <<>>, textFrom |-> 0, stale |-> FALSE, stream |-> NoStream]

FrameText(sec) == IF sec >= video.textFrom THEN video.frameTxt ELSE <<>>

NoInfo ==
    [present |-> FALSE, description |-> [isNone |-> FALSE, text |-> <<>>], id |-> 0,
     requested_downloads |-> NoPath, filename |-> NoPath, filepath |-> NoPath]

\* what the download leaves on disk and which paths its info dictionary reports
DownloadCases ==
    LET dc(m, rd, fn, fp) ==
            [media |-> m, requested_downloads |-> rd, filename |-> fn, filepath |-> fp]
        d == Mp4(VideoId)
        o == OtherMedia(VideoId)
    IN  { dc({d}, NoPath, NoPath, NoPath),
          dc({d}, d, NoPath, NoPath),
          dc({o}, o, NoPath, NoPath),
          dc({o}, o, d, d),
          dc({o}, NoPath, o, d),
          dc({o}, NoPath, NoPath, o),
          dc({o}, NoPath, NoPath, NoPath),
          dc({}, NoPath, NoPath, NoPath) }

NoSource == [channel |-> "none", sec |-> -1]
NoResult == [flag |-> None, source |-> NoSource]
Event(what, sec) == [what |-> what, sec |-> sec]

(***************************************************************************)
(* extract_frames_every_n_seconds                                           *)
(***************************************************************************)
\* range(0, n, interval)
Offsets(n) == [k \in 1..((n + interval - 1) \div interval) |-> (k - 1) * interval]

\* int(total_frames / fps) for fps = num / den
DurationInt(num, den, total) == (total * den) \div num

\* video_flag_extractor.py lines 46-50: a frame rate of 0 is replaced by 30
OcrFps(st) ==
    IF st.fpsNum = 0 THEN [num |-> DefaultFps, den |-> 1]
    ELSE [num |-> st.fpsNum, den |-> st.fpsDen]

\* video_flag_extractor.py lines 52-67; `bad' is the offset whose decode fails (-1: none)
OcrSample(st, bad) ==
    LET fps == OcrFps(st)
    IN  IF st.total = 0 \/ fps.num = 0 THEN <<>>
        ELSE SelectSeq(Offsets(DurationInt(fps.num, fps.den, st.total)),
                       LAMBDA sec : sec # bad)

\* Youtube_Flag_VLM.py lines 37-47
VlmSample(st, bad) ==
    LET duration == IF st.fpsNum > 0 THEN DurationInt(st.fpsNum, st.fpsDen, st.total) ELSE 0
    IN  SelectSeq(Offsets(duration), LAMBDA sec : sec # bad)

Range(seq) == {seq[k] : k \in 1..Len(seq)}

\* int(fps * sec) with the product taken one offset too far
FrameNumMutant(num, den, sec) == (num * (sec + 1)) \div den

\* int(fps * sec)
FrameNum(num, den, sec) == (num * sec) \div den

\* video_flag_extractor.py lines 59-62: cap.set(CAP_PROP_POS_FRAMES, frame_num) for
\* every offset of the loop, whether or not the read that follows succeeds
OcrSeeks(st) ==
    LET fps == OcrFps(st)
    IN  {[sec |-> sec, frame_num |-> FrameNum(fps.num, fps.den, sec)] :
            sec \in Range(OcrSample(st, -1))}

\* Youtube_Flag_VLM.py lines 40-42
VlmSeeks(st) ==
    {[sec |-> sec, frame_num |-> FrameNum(st.fpsNum, st.fpsDen, sec)] :
        sec \in Range(VlmSample(st, -1))}

(***************************************************************************)
(* video_flag_extractor.py: scan_video and what it calls                    *)
(***************************************************************************)
Exists(f) == f \in fs

\* os.remove(f): the file goes away unless the removal fails with OSError
AfterRemove(files, f, ok) == IF ok THEN files \ {f} ELSE files

\* lines 197-209 with the reported path taking precedence over the default
ResolvePathMutant(default, files, info) ==
    IF info.present /\ info.requested_downloads # NoPath THEN info.requested_downloads
    ELSE IF info.present /\ info.filename # NoPath THEN info.filename
    ELSE IF info.present /\ info.filepath # NoPath THEN info.filepath
    ELSE default

\* lines 197-209: the constructed default, replaced by a reported path only
\* when the default file is not on disk
ResolvePath(default, files, info) ==
    IF default \notin files /\ info.present
    THEN IF info.requested_downloads # NoPath THEN info.requested_downloads
         ELSE IF info.filename # NoPath THEN info.filename
         ELSE IF info.filepath # NoPath THEN info.filepath
         ELSE default
    ELSE default

\* lines 124-158 with the subtitles looked at before the description
ScanDescriptionAndSubsMutant(info, video_id, files) ==
    LET inDesc == TextSearch(info.description.text)
        possible_sub_files == <<Vtt(video_id), Vtt(info.id)>>
        found == {k \in 1..2 : possible_sub_files[k] \in files}
        first == CHOOSE k \in found : \A j \in found : k <= j
        inSubs == IF found = {} THEN None
                  ELSE TextSearch(video.subs.text[possible_sub_files[first].vid])
    IN  IF inSubs # None THEN [flag |-> inSubs, source |-> [channel |-> "subtitles", sec |-> -1]]
        ELSE IF inDesc # None THEN [flag |-> inDesc, source |-> [channel |-> "description", sec |-> -1]]
        ELSE NoResult

\* lines 124-158 with the two subtitle candidates in the other order
ScanDescriptionAndSubsSwapMutant(info, video_id, files) ==
    LET inDesc == TextSearch(info.description.text)
        possible_sub_files == <<Vtt(info.id), Vtt(video_id)>>
        found == {k \in 1..2 : possible_sub_files[k] \in files}
        first == CHOOSE k \in found : \A j \in found : k <= j
        inSubs == IF found = {} THEN None
                  ELSE TextSearch(video.subs.text[possible_sub_files[first].vid])
    IN  IF inDesc # None THEN [flag |-> inDesc, source |-> [channel |-> "description", sec |-> -1]]
        ELSE IF inSubs # None THEN [flag |-> inSubs, source |-> [channel |-> "subtitles", sec |-> -1]]
        ELSE NoResult

\* lines 124-158
ScanDescriptionAndSubs(info, video_id, files) ==
    LET inDesc == TextSearch(info.description.text)
        possible_sub_files == <<Vtt(video_id), Vtt(info.id)>>
        found == {k \in 1..2 : possible_sub_files[k] \in files}
        first == CHOOSE k \in found : \A j \in found : k <= j
        inSubs == IF found = {} THEN None
                  ELSE TextSearch(video.subs.text[possible_sub_files[first].vid])
    IN  IF inDesc # None THEN [flag |-> inDesc, source |-> [channel |-> "description", sec |-> -1]]
        ELSE IF inSubs # None THEN [flag |-> inSubs, source |-> [channel |-> "subtitles", sec |-> -1]]
        ELSE NoResult

\* lines 191-193, 247-257: extract_info raises; downloaded_video_path is still None
ODownloadRaises ==
    /\ script = "ocr" /\ pc = "o_start"
    /\ \E kind \in {"DownloadError", "Exception"} : events' = events \cup {Event(kind, -1)}
    /\ result' = NoResult
    /\ pc' = "done"
    /\ UNCHANGED <<script, batchVars, seeks, resolverVars, video, fs, created, info_dict,
                   downloaded_video_path, frames, fidx, flag, source, recognised>>

\* lines 193, 212-214: extract_info returns nothing
ODownloadNoInfo ==
    /\ script = "ocr" /\ pc = "o_start"
    /\ downloaded_video_path' = Mp4(video.id)
    /\ events' = events \cup {Event("no_info", -1)}
    /\ result' = NoResult
    /\ pc' = "done"
    /\ UNCHANGED <<script, batchVars, seeks, resolverVars, video, fs, created, info_dict,
                   frames, fidx, flag, source, recognised>>

\* lines 192-209: the download succeeds
ODownloadOk ==
    /\ script = "ocr" /\ pc = "o_start"
    /\ \E dc \in DownloadCases :
          LET written == dc.media \cup {Vtt(k) : k \in video.subs.files}
              info == [present |-> TRUE, description |-> video.description,
                       id |-> video.subs.infoId,
                       requested_downloads |-> dc.requested_downloads,
                       filename |-> dc.filename, filepath |-> dc.filepath]
          IN  /\ fs' = fs \cup written
              /\ created' = created \cup written
              /\ info_dict' = info
              /\ downloaded_video_path' = ResolvePath(Mp4(video.id), fs \cup written, info)
    /\ pc' = "o_text"
    /\ UNCHANGED <<script, batchVars, seeks,
                   resolverVars, video, frames, fidx, flag, source, result,
                   recognised, events>>

\* lines 221-225, 252-256: remove the media file if it is there; OSError is swallowed
RemoveIfExists ==
    IF downloaded_video_path # NoPath /\ Exists(downloaded_video_path)
    THEN \E ok \in BOOLEAN :
            /\ fs' = AfterRemove(fs, downloaded_video_path, ok)
            /\ events' = IF ok THEN events ELSE events \cup {Event("rm_media_failed", -1)}
    ELSE UNCHANGED <<fs, events>>

\* line 218 raises (the description is None): lines 249-257
OTextRaises ==
    /\ script = "ocr" /\ pc = "o_text"
    /\ info_dict.description.isNone
    /\ RemoveIfExists
    /\ result' = NoResult
    /\ pc' = "done"
    /\ UNCHANGED <<script, batchVars, seeks, resolverVars, video, created, info_dict,
                   downloaded_video_path, frames, fidx, flag, source, recognised>>

\* lines 218-226: a text channel matched
OTextFound ==
    /\ script = "ocr" /\ pc = "o_text"
    /\ ~info_dict.description.isNone
    /\ LET r == ScanDescriptionAndSubs(info_dict, video.id, fs)
       IN  /\ r.flag # None
           /\ flag' = r.flag
           /\ source' = r.source
           /\ result' = r
    /\ RemoveIfExists
    /\ pc' = "done"
    /\ UNCHANGED <<script, batchVars, seeks, resolverVars, video, created, info_dict,
                   downloaded_video_path, frames, fidx, recognised>>

\* lines 218-219: no text channel matched
OTextMiss ==
    /\ script = "ocr" /\ pc = "o_text"
    /\ ~info_dict.description.isNone
    /\ ScanDescriptionAndSubs(info_dict, video.id, fs).flag = None
    /\ pc' = "o_frames"
    /\ UNCHANGED <<script, batchVars, seeks, resolverVars, scanVars>>

MediaOnDisk == downloaded_video_path # NoPath /\ Exists(downloaded_video_path)

\* lines 229, 244-245, 257: no media file, the frame channel is skipped
OFramesSkipped ==
    /\ script = "ocr" /\ pc = "o_frames"
    /\ ~MediaOnDisk
    /\ result' = NoResult
    /\ pc' = "done"
    /\ UNCHANGED <<script, batchVars, seeks, resolverVars, video, fs, created, info_dict,
                   downloaded_video_path, frames, fidx, flag, source, recognised, events>>

\* lines 229-233, 76-77: sample the frames, then detect_flag_with_tesseract
\* creates its directory when there is a frame to scan
OExtractFrames ==
    /\ script = "ocr" /\ pc = "o_frames"
    /\ MediaOnDisk
    /\ \E st \in StreamsOf(video) :
       \E bad \in {-1} \cup {sec \in Range(OcrSample(st, -1)) : MayFail(sec)} :
          /\ video' = [video EXCEPT !.stream = st]
          /\ frames' = OcrSample(st, bad)
          /\ seeks' = OcrSeeks(st)
          /\ events' = IF bad = -1 THEN events ELSE events \cup {Event("decode_failed", bad)}
          /\ IF OcrSample(st, bad) # <<>>
             THEN /\ fs' = fs \cup {FramesDir(video.id)}
                  /\ created' = created \cup {FramesDir(video.id)}
                  /\ pc' = "o_ocr"
             ELSE /\ UNCHANGED <<fs, created>>
                  /\ pc' = "o_remove"
    /\ fidx' = 1
    /\ UNCHANGED <<script, batchVars, resolverVars, info_dict, downloaded_video_path, flag,
                   source, result, recognised>>

\* lines 79-121 with the loop going on after a match instead of returning
OOcrFrameMutant ==
    /\ script = "ocr" /\ pc = "o_ocr"
    /\ fidx <= Len(frames)
    /\ LET sec == frames[fidx]
           m == OcrSearch(Normalize(FrameText(sec)))
       IN  /\ recognised' = recognised \cup {sec}
           /\ fidx' = fidx + 1
           /\ pc' = IF fidx + 1 > Len(frames) THEN "o_remove" ELSE "o_ocr"
           /\ \E ok \in {b \in BOOLEAN : ~b => MayFail(sec)} :
                 IF ok
                 THEN /\ fs' = fs \cup {FrameJpg(video.id, sec), OcrTxt(video.id, sec)}
                      /\ created' = created \cup {FrameJpg(video.id, sec), OcrTxt(video.id, sec)}
                      /\ UNCHANGED events
                      /\ IF m # None
                         THEN /\ flag' = m
                              /\ source' = [channel |-> "visual", sec |-> sec]
                         ELSE UNCHANGED <<flag, source>>
                 ELSE /\ fs' = fs \cup {FrameJpg(video.id, sec)}
                      /\ created' = created \cup {FrameJpg(video.id, sec)}
                      /\ events' = events \cup {Event("ocr_failed", sec)}
                      /\ UNCHANGED <<flag, source>>
    /\ UNCHANGED <<script, batchVars, seeks, resolverVars, video, info_dict,
                   downloaded_video_path, frames, result>>

\* lines 79-121: one iteration of the loop over the frames
OOcrFrame ==
    /\ script = "ocr" /\ pc = "o_ocr"
    /\ fidx <= Len(frames)
    /\ LET sec == frames[fidx]
           m == OcrSearch(Normalize(FrameText(sec)))
           advance == /\ fidx' = fidx + 1
                      /\ pc' = IF fidx + 1 > Len(frames) THEN "o_remove" ELSE "o_ocr"
                      /\ UNCHANGED <<flag, source>>
       IN  /\ recognised' = recognised \cup {sec}
           /\ \E ok \in {b \in BOOLEAN : ~b => MayFail(sec)} :
                 IF ok
                 THEN /\ fs' = fs \cup {FrameJpg(video.id, sec), OcrTxt(video.id, sec)}
                      /\ created' = created \cup {FrameJpg(video.id, sec), OcrTxt(video.id, sec)}
                      /\ UNCHANGED events
                      /\ IF m # None
                         THEN /\ flag' = m
                              /\ source' = [channel |-> "visual", sec |-> sec]
                              /\ pc' = "o_remove"
                              /\ UNCHANGED fidx
                         ELSE advance
                 ELSE /\ fs' = fs \cup {FrameJpg(video.id, sec)}
                      /\ created' = created \cup {FrameJpg(video.id, sec)}
                      /\ events' = events \cup {Event("ocr_failed", sec)}
                      /\ advance
    /\ UNCHANGED <<script, batchVars, seeks,
                   resolverVars, video, info_dict, downloaded_video_path, frames, result>>

\* lines 234-243, 257 with a frame match returned before the removal
ORemoveMediaMutant ==
    /\ script = "ocr" /\ pc = "o_remove"
    /\ IF flag # None
       THEN UNCHANGED <<fs, events>>
       ELSE \E ok \in BOOLEAN :
               /\ fs' = AfterRemove(fs, downloaded_video_path, ok)
               /\ events' = IF ok THEN events ELSE events \cup {Event("rm_media_failed", -1)}
    /\ result' = IF flag # None THEN [flag |-> flag, source |-> source] ELSE NoResult
    /\ pc' = "done"
    /\ UNCHANGED <<script, batchVars, seeks, resolverVars, video, created, info_dict,
                   downloaded_video_path, frames, fidx, flag, source, recognised>>

\* lines 234-243, 257: remove the media file, return what the frames gave
ORemoveMedia ==
    /\ script = "ocr" /\ pc = "o_remove"
    /\ \E ok \in BOOLEAN :
          /\ fs' = AfterRemove(fs, downloaded_video_path, ok)
          /\ events' = IF ok THEN events ELSE events \cup {Event("rm_media_failed", -1)}
    /\ result' = IF flag # None THEN [flag |-> flag, source |-> source] ELSE NoResult
    /\ pc' = "done"
    /\ UNCHANGED <<script, batchVars, seeks, resolverVars, video, created, info_dict,
                   downloaded_video_path, frames, fidx, flag, source, recognised>>

(***************************************************************************)
(* VLMs/Youtube_Flag_VLM.py: scan_video and what it calls                   *)
(***************************************************************************)
\* lines 60-64: the answer of the model is searched only when it holds "FLAG_"
VlmFlagCheck(response) ==
    IF Contains(response) THEN TextSearch(response) ELSE None

\* lines 74-75, 89-91: ydl.download raises
VDownloadRaises ==
    /\ script = "vlm" /\ pc = "v_start"
    /\ events' = events \cup {Event("DownloadError", -1)}
    /\ result' = NoResult
    /\ pc' = "done"
    /\ UNCHANGED <<script, batchVars, seeks, resolverVars, video, fs, created, info_dict,
                   downloaded_video_path, frames, fidx, flag, source, recognised>>

\* lines 74-77: the download succeeds; the path is always the constructed one
VDownloadOk ==
    /\ script = "vlm" /\ pc = "v_start"
    /\ \E media \in {Mp4(video.id), OtherMedia(video.id)} :
          /\ fs' = fs \cup {media}
          /\ created' = created \cup {media}
    /\ downloaded_video_path' = Mp4(video.id)
    /\ pc' = "v_extract"
    /\ UNCHANGED <<script, batchVars, seeks,
                   resolverVars, video, info_dict, frames, fidx, flag, source,
                   result, recognised, events>>

\* lines 78, 31-49: every sampled frame is written to temp_frame_{sec}.jpg
VExtractFrames ==
    /\ script = "vlm" /\ pc = "v_extract"
    /\ IF Exists(downloaded_video_path)
       THEN \E st \in StreamsOf(video) :
            \E bad \in {-1} \cup {sec \in Range(VlmSample(st, -1)) : MayFail(sec)} :
               /\ video' = [video EXCEPT !.stream = st]
               /\ frames' = VlmSample(st, bad)
               /\ seeks' = VlmSeeks(st)
               /\ events' = IF bad = -1 THEN events
                            ELSE events \cup {Event("decode_failed", bad)}
       ELSE /\ frames' = <<>>      \* lines 34-36: the capture cannot be opened
            /\ UNCHANGED <<video, events, seeks>>
    /\ fs' = fs \cup {TempFrame(sec) : sec \in Range(frames')}
    /\ created' = created \cup {TempFrame(sec) : sec \in Range(frames')}
    /\ fidx' = 1
    /\ pc' = IF frames' = <<>> THEN "v_remove" ELSE "v_loop"
    /\ UNCHANGED <<script, batchVars, resolverVars, info_dict, downloaded_video_path, flag,
                   source, result, recognised>>

\* lines 80-86, 89-91: one iteration of the loop over the frames
VCheckFrame ==
    /\ script = "vlm" /\ pc = "v_loop"
    /\ fidx <= Len(frames)
    /\ LET sec == frames[fidx]
           found == VlmFlagCheck(FrameText(sec))
       IN  /\ recognised' = recognised \cup {sec}
           /\ \E what \in {w \in {"ok", "vlm_failed", "rm_frame_failed"} :
                                w # "ok" => MayFail(sec)} :
                 CASE what = "vlm_failed" ->
                        \* vlm_flag_check raises: the except clause of scan_video
                        /\ events' = events \cup {Event(what, sec)}
                        /\ result' = NoResult
                        /\ pc' = "done"
                        /\ UNCHANGED <<fs, flag, source, fidx>>
                   [] what = "rm_frame_failed" ->
                        \* os.remove(frame_path) raises: the except clause of scan_video
                        /\ events' = events \cup {Event(what, sec)}
                        /\ flag' = found
                        /\ source' = IF found # None THEN [channel |-> "visual", sec |-> sec]
                                     ELSE source
                        /\ result' = NoResult
                        /\ pc' = "done"
                        /\ UNCHANGED <<fs, fidx>>
                   [] OTHER ->
                        /\ fs' = fs \ {TempFrame(sec)}
                        /\ flag' = found
                        /\ UNCHANGED events
                        /\ IF found # None
                           THEN /\ source' = [channel |-> "visual", sec |-> sec]
                                /\ result' = [flag |-> found,
                                              source |-> [channel |-> "visual", sec |-> sec]]
                                /\ pc' = "done"
                                /\ UNCHANGED fidx
                           ELSE /\ fidx' = fidx + 1
                                /\ pc' = IF fidx + 1 > Len(frames) THEN "v_remove" ELSE "v_loop"
                                /\ UNCHANGED <<source, result>>
    /\ UNCHANGED <<script, batchVars, seeks, resolverVars, video, created, info_dict,
                   downloaded_video_path, frames>>

\* lines 88-91: remove the media file; a failure is caught and None is returned
VRemoveMedia ==
    /\ script = "vlm" /\ pc = "v_remove"
    /\ \E ok \in {b \in BOOLEAN : b => Exists(downloaded_video_path)} :
          /\ fs' = AfterRemove(fs, downloaded_video_path, ok)
          /\ events' = IF ok THEN events ELSE events \cup {Event("rm_media_failed", -1)}
    /\ result' = NoResult
    /\ pc' = "done"
    /\ UNCHANGED <<script, batchVars, seeks, resolverVars, video, created, info_dict,
                   downloaded_video_path, frames, fidx, flag, source, recognised>>

(***************************************************************************)
(* main() of the two scanning scripts                                       *)
(***************************************************************************)
\* get_video_metadata makes one extract_info call and returns a record when the
\* upload date is there, None when it is missing or when the call raises
NoMeta == 0
MetadataResults == {NoMeta} \cup Dates

\* what a scan_video call hands back to main(): a token, or None after a scan
\* without a match, or None after an exception caught inside scan_video
ScanOutcomes == {"found", "notfound", "error"}

AfterMetadata == IF midx = urls THEN "m_sort" ELSE "m_meta"

\* video_flag_extractor.py lines 268-273
MGetMetadata ==
    /\ script = "ocr_main" /\ pc = "m_meta"
    /\ midx <= urls
    /\ \E r \in MetadataResults :
          /\ meta' = [meta EXCEPT ![midx] = Append(@, IF r = NoMeta THEN "none" ELSE "ok")]
          /\ videos' = IF r # NoMeta THEN Append(videos, [link |-> midx, date |-> r])
                       ELSE videos
    /\ midx' = midx + 1
    /\ pc' = AfterMetadata
    /\ UNCHANGED <<script, seeks, resolverVars, scanVars, urls, vidx, visited, found_any_flag>>

\* Youtube_Flag_VLM.py line 105: the comprehension calls get_video_metadata once
\* in its filter and, when that call gave a record, once more for the element
VMGetMetadata ==
    /\ script = "vlm_main" /\ pc = "m_meta"
    /\ midx <= urls
    /\ \E filterGivesRecord \in BOOLEAN :
          IF ~filterGivesRecord
          THEN /\ meta' = [meta EXCEPT ![midx] = Append(@, "none")]
               /\ UNCHANGED videos
          ELSE \E r2 \in MetadataResults :
                  /\ meta' = [meta EXCEPT ![midx] =
                                  @ \o <<"ok", IF r2 = NoMeta THEN "none" ELSE "ok">>]
                  /\ videos' = Append(videos, [link |-> midx, date |-> r2])
    /\ midx' = midx + 1
    /\ pc' = AfterMetadata
    /\ UNCHANGED <<script, seeks, resolverVars, scanVars, urls, vidx, visited, found_any_flag>>

\* video_flag_extractor.py line 276, Youtube_Flag_VLM.py line 106: the sort key
\* reads x["upload_date"], which raises TypeError on an entry that is None
MSort ==
    /\ script \in {"ocr_main", "vlm_main"} /\ pc = "m_sort"
    /\ IF \E k \in 1..Len(videos) : videos[k].date = NoMeta
       THEN /\ pc' = "crashed"
            /\ UNCHANGED videos
       ELSE /\ videos' = SortDesc(videos)
            /\ pc' = IF videos = <<>> THEN "done" ELSE "m_scan"
    /\ UNCHANGED <<script, seeks, resolverVars, scanVars, urls, midx, meta, vidx, visited,
                   found_any_flag>>

Visit(v, o) == [link |-> v.link, date |-> v.date, outcome |-> o]

\* video_flag_extractor.py lines 278-288 with the break of line 288 in force
MScanMutant ==
    /\ script = "ocr_main" /\ pc = "m_scan"
    /\ vidx <= Len(videos)
    /\ \E o \in ScanOutcomes :
          /\ visited' = Append(visited, Visit(videos[vidx], o))
          /\ found_any_flag' = (found_any_flag \/ o = "found")
          /\ pc' = IF o = "found" \/ vidx = Len(videos) THEN "done" ELSE "m_scan"
    /\ vidx' = vidx + 1
    /\ UNCHANGED <<script, seeks, resolverVars, scanVars, urls, midx, meta, videos>>

\* video_flag_extractor.py lines 278-288: the break after a match is commented out
MScan ==
    /\ script = "ocr_main" /\ pc = "m_scan"
    /\ vidx <= Len(videos)
    /\ \E o \in ScanOutcomes :
          /\ visited' = Append(visited, Visit(videos[vidx], o))
          /\ found_any_flag' = (found_any_flag \/ o = "found")
    /\ vidx' = vidx + 1
    /\ pc' = IF vidx = Len(videos) THEN "done" ELSE "m_scan"
    /\ UNCHANGED <<script, seeks, resolverVars, scanVars, urls, midx, meta, videos>>

\* Youtube_Flag_VLM.py lines 108-114: the loop breaks at the first token
VMScan ==
    /\ script = "vlm_main" /\ pc = "m_scan"
    /\ vidx <= Len(videos)
    /\ \E o \in ScanOutcomes :
          /\ visited' = Append(visited, Visit(videos[vidx], o))
          /\ IF o = "found"
             THEN /\ pc' = "done"
                  /\ UNCHANGED vidx
             ELSE /\ vidx' = vidx + 1
                  /\ pc' = IF vidx = Len(videos) THEN "done" ELSE "m_scan"
    /\ UNCHANGED <<script, seeks, resolverVars, scanVars, urls, midx, meta, videos,
                   found_any_flag>>

(***************************************************************************)
(* The programs                                                             *)
(***************************************************************************)
InitResolver ==
    /\ script = "resolver" /\ pc = "r_fetch"
    /\ youtube_links \in 1..MaxLinks
    /\ video = NoVideo
    /\ fs = {}
    /\ urls = 0

InitBatch ==
    /\ script \in {"ocr_main", "vlm_main"} /\ pc = "m_meta"
    /\ youtube_links = 0
    /\ video = NoVideo
    /\ fs = {}
    /\ urls \in 1..MaxUrls

InitScan ==
    /\ script \in {"ocr", "vlm"}
    /\ pc = IF script = "ocr" THEN "o_start" ELSE "v_start"
    /\ youtube_links = 0
    /\ video \in Videos \cup LongVideos
    \* the vision-language script reads neither description nor subtitles
    /\ script = "vlm" =>
          /\ video \in Videos
          /\ video.description = [isNone |-> FALSE, text |-> TxtPlain]
          /\ video.subs.files = {}
          /\ ~video.stale
    /\ fs = IF video.stale THEN {Mp4(video.id)} ELSE {}
    /\ urls = 0

Init ==
    /\ InitResolver \/ InitScan \/ InitBatch
    /\ i = 1
    /\ attempt = 0
    /\ video_data = <<>>
    /\ pauses = [k \in 1..youtube_links |-> <<>>]
    /\ fetches = [k \in 1..youtube_links |-> 0]
    /\ outcome = [k \in 1..youtube_links |-> "pending"]
    /\ csv_rows = <<>>
    /\ created = {}
    /\ info_dict = NoInfo
    /\ downloaded_video_path = NoPath
    /\ frames = <<>>
    /\ fidx = 1
    /\ flag = None
    /\ source = NoSource
    /\ result = NoResult
    /\ recognised = {}
    /\ events = {}
    /\ seeks = {}
    /\ midx = 1
    /\ meta = [k \in 1..urls |-> <<>>]
    /\ videos = <<>>
    /\ vidx = 1
    /\ visited = <<>>
    /\ found_any_flag = FALSE

ResolverNext ==
    \/ RFetchOk
    \/ RFetchSkip
    \/ RFetchRetryable
    \/ REmptyReturn
    \/ RSortAndSave

Next ==
    \/ ResolverNext
    \/ ODownloadRaises
    \/ ODownloadNoInfo
    \/ ODownloadOk
    \/ OTextRaises
    \/ OTextFound
    \/ OTextMiss
    \/ OFramesSkipped
    \/ OExtractFrames
    \/ OOcrFrame
    \/ ORemoveMedia
    \/ VDownloadRaises
    \/ VDownloadOk
    \/ VExtractFrames
    \/ VCheckFrame
    \/ VRemoveMedia
    \/ MGetMetadata
    \/ VMGetMetadata
    \/ MSort
    \/ MScan
    \/ VMScan

Spec == Init /\ [][Next]_vars

\* youtube_extractor.py alone.  The script is one sequential flow of blocking
\* calls, each of which returns: a step that can be taken is taken.
ResolverInit == Init /\ script = "resolver"
ResolverSpec == ResolverInit /\ [][ResolverNext]_vars /\ WF_vars(ResolverNext)

(***************************************************************************)
(* Properties                                                               *)
(***************************************************************************)
Scanning == script \in {"ocr", "vlm"}
Done == pc = "done"

\* the token each text of the model holds, read off the text by hand
ExpectedTextToken(text) ==
    CASE text = TxtShortFlag -> <<"F", "L", "A", "G", "_", "a", "B">>
      [] text = TxtLongFlag -> <<"F", "L", "A", "G", "_", "a", "b", "_", "1", "2">>
      [] text = TxtSubFlag -> <<"F", "L", "A", "G", "_", "Z", "z", "9", "8">>
      [] text = TxtShortFrame -> <<"F", "L", "A", "G", "_", "9", "z">>
      [] OTHER -> None

\* the token the OCR channel must report for each frame text of the model
ExpectedOcrToken(text) ==
    CASE text = TxtNoisy -> <<"F", "L", "A", "G", "_", "9", "Z", "8", "Y">>
      [] text = TxtFrameFlag ->
            <<"F", "L", "A", "G", "_", "9", "Z", "8", "Y", "7", "X", "6">>
      [] OTHER -> None

\* FLAG_ followed by at least minTail characters of cls, and nothing else
WellFormed(tok, cls, minTail) ==
    /\ Len(tok) >= 5 + minTail
    /\ SubSeq(tok, 1, 5) = FlagPrefix
    /\ \A k \in 6..Len(tok) : tok[k] \in cls

MediaKinds == {"mp4", "other_media"}
ArtifactKinds == MediaKinds \cup {"frame_jpg", "ocr_txt", "frames_dir", "temp_frame"}
Happened(what) == \E e \in events : e.what = what

\* C1: after scan_video returns, no media file, frame image, OCR dump or frame
\* directory written while processing the video is still on disk.  Stated for
\* the runs in which nothing failed and the download honoured the file name.
C1_NoArtifactRemains ==
    (Scanning /\ Done /\ events = {} /\ OtherMedia(video.id) \notin created)
        => {f \in created \cap fs : f.kind \in ArtifactKinds} = {}

\* C2: the pause before the k-th retry of a reference is initial_delay * k
\* (30, 60, ... for initial_delay = 30).
C2_PauseIsInitialDelayTimesK ==
    \A l \in Links : \A k \in 1..Len(pauses[l]) : pauses[l][k] = initial_delay * k

\* per reference: the number of fetches is bounded, and an exhausted reference
\* is absent from video_data while the loop has moved past it
C3_Bounded ==
    \A l \in Links :
        /\ fetches[l] <= max_retries
        /\ Len(pauses[l]) <= fetches[l]
        /\ outcome[l] = "exhausted" =>
              /\ fetches[l] = max_retries
              /\ Len(pauses[l]) = max_retries
              /\ \A k \in 1..Len(video_data) : video_data[k].link # l
              /\ i > l
              /\ pc \in {"r_fetch", "r_after_loop", "done"}
\* C3: a reference whose fetch keeps failing with a retryable error is fetched
\* at most max_retries times, is then dropped, the resolver moves on to the next
\* reference without raising, and the resolver terminates.
C3_BoundedRetryThenDrop == [](script = "resolver" => C3_Bounded) /\ <>Done
C3_Witness ==
    /\ script = "resolver" /\ Done
    /\ youtube_links >= 2
    /\ outcome[1] = "exhausted"
    /\ outcome[2] = "resolved"

\* the content of the first subtitle candidate the download wrote
FirstSubtitleText ==
    IF Exists(Vtt(video.id)) \/ Vtt(video.id) \in created THEN video.subs.text[video.id]
    ELSE IF Vtt(info_dict.id) \in created THEN video.subs.text[info_dict.id]
    ELSE <<>>
NoFrameTouched == frames = <<>> /\ recognised = {} /\ video.stream = NoStream
\* C4: within one video the channels are evaluated in the order description,
\* subtitles, frames, and the first match is the result: with a token in the
\* description no frame is sampled or recognised.
C4_ChannelPriority ==
    (script = "ocr" /\ info_dict.present /\ ~info_dict.description.isNone
                    /\ pc \notin {"o_start", "o_text"})
        => LET inDesc == ExpectedTextToken(info_dict.description.text)
               inSubs == ExpectedTextToken(FirstSubtitleText)
           IN  /\ inDesc # None =>
                     /\ Done /\ NoFrameTouched
                     /\ result = [flag |-> inDesc,
                                  source |-> [channel |-> "description", sec |-> -1]]
               /\ (inDesc = None /\ inSubs # None) =>
                     /\ Done /\ NoFrameTouched
                     /\ result = [flag |-> inSubs,
                                  source |-> [channel |-> "subtitles", sec |-> -1]]
               /\ (inDesc = None /\ inSubs = None) => result.source.channel \in {"none", "visual"}
C4_Witness ==
    /\ script = "ocr" /\ Done
    /\ video.description.text = TxtLongFlag
    /\ ExpectedOcrToken(video.frameTxt) # None
    /\ Mp4(video.id) \in created
    /\ result.source.channel = "description"

\* C5 (as claimed): every reported token is FLAG_ followed by at least 4
\* characters from letters, digits and underscore.
C5_TokenHasFourCharTail ==
    result.flag # None => WellFormed(result.flag, TextClass, OcrMinTail)
\* C5 (amended): every reported token is FLAG_ followed by at least 1 character
\* from letters, digits and underscore; a token from the OCR frame channel has
\* at least 4, none of them a lower-case letter.
C5_TokenGrammar ==
    result.flag # None =>
        /\ WellFormed(result.flag, TextClass, TextMinTail)
        /\ (script = "ocr" /\ result.source.channel = "visual")
               => WellFormed(result.flag, OcrClass, OcrMinTail)
C5_Witness ==
    /\ script = "ocr" /\ Done
    /\ result.source.channel = "visual"
    /\ result.flag = ExpectedOcrToken(TxtNoisy)

\* the frames the sampler returned that show a token the scanner must report
TokenFrames ==
    {sec \in Range(frames) :
        IF script = "ocr" THEN ExpectedOcrToken(FrameText(sec)) # None
        ELSE ExpectedTextToken(FrameText(sec)) # None}
NoDecodeFailure == ~Happened("decode_failed")
Extracted == pc \in {"o_ocr", "o_remove", "v_loop", "v_remove"} \/ (Done /\ video.stream # NoStream)

\* C6: with a reported frame rate of 0 the sampler falls back to 30 and returns
\* a non-empty sequence when every decode succeeds.  Stated for the streams of
\* at least 30 frames, which last a full second at the substituted rate.
C6_ZeroFpsSamplesNonEmpty ==
    (Scanning /\ Extracted /\ NoDecodeFailure
              /\ video.stream.fpsNum = 0 /\ video.stream.total >= DefaultFps)
        => frames # <<>>

\* the path the download reports: requested_downloads, else _filename, else filepath
ReportedPath ==
    IF info_dict.requested_downloads # NoPath THEN info_dict.requested_downloads
    ELSE IF info_dict.filename # NoPath THEN info_dict.filename
    ELSE info_dict.filepath
\* '<id>.mp4' was on disk when the download returned
DefaultOnDisk == video.stale \/ Mp4(video.id) \in created

\* C7 (as claimed): whenever the download reports a path, that path is the one
\* scan_video uses.
C7_ReportedPathWins ==
    (script = "ocr" /\ info_dict.present /\ ReportedPath # NoPath)
        => downloaded_video_path = ReportedPath
\* C7 (amended): the media path is the constructed '<id>.mp4' whenever a file of
\* that name is on disk after the download; only when it is not does the
\* reported path (requested_downloads[0].filepath, else _filename, else
\* filepath) replace it, and with nothing reported the constructed path stays.
C7_DefaultPathWins ==
    (script = "ocr" /\ info_dict.present) =>
        /\ DefaultOnDisk => downloaded_video_path = Mp4(video.id)
        /\ (~DefaultOnDisk /\ ReportedPath # NoPath) => downloaded_video_path = ReportedPath
        /\ (~DefaultOnDisk /\ ReportedPath = NoPath) => downloaded_video_path = Mp4(video.id)
C7_Witness ==
    /\ script = "ocr" /\ Done
    /\ ~DefaultOnDisk
    /\ info_dict.requested_downloads = NoPath
    /\ info_dict.filename = OtherMedia(video.id)
    /\ downloaded_video_path = OtherMedia(video.id)
    /\ recognised # {}
    /\ downloaded_video_path \notin fs

\* C8: when the download fails, the description and the subtitles are still
\* scanned, so a token in the description is the outcome.
C8_TextChannelsSurviveDownloadFailure ==
    (script = "ocr" /\ Done /\ Happened("DownloadError")
                    /\ ~video.description.isNone
                    /\ ExpectedTextToken(video.description.text) # None)
        => /\ result.flag = ExpectedTextToken(video.description.text)
           /\ result.source.channel = "description"

\* C9: a decode or recognition failure on one frame only skips that frame: when
\* nothing else fails, a scan that found no token has handed every sampled frame
\* to the recognizer, and a token shown in a sampled frame whose recognition
\* did not fail is found.
RecognitionFailed(sec) ==
    \E e \in events : e.sec = sec /\ e.what \in {"ocr_failed", "vlm_failed"}
OnlyFrameFailures ==
    \A e \in events : e.what \in {"decode_failed", "ocr_failed", "vlm_failed"}
C9_FrameFailureSkipsOnlyThatFrame ==
    (Scanning /\ Done /\ OnlyFrameFailures /\ video.stream # NoStream) =>
        /\ result.flag = None => Range(frames) \subseteq recognised
        /\ (\E sec \in TokenFrames : ~RecognitionFailed(sec)) => result.flag # None

\* C10: a removal that fails never changes the outcome: a token that was found
\* is the token scan_video returns.
C10_RemovalFailureKeepsOutcome ==
    (Scanning /\ Done /\ flag # None) => result.flag = flag

\* C11: the references are processed newest upload first, and references of the
\* same upload date keep the order in which they were discovered: main() of
\* video_flag_extractor.py visits every resolved reference in that order (urls
\* dated 1, 3, 2 are visited second, third, first), and the CSV file of
\* youtube_extractor.py lists every resolved reference in that order.
NewestFirstStable(seq) ==
    \A a, b \in 1..Len(seq) :
        a < b => \/ seq[a].date > seq[b].date
                 \/ seq[a].date = seq[b].date /\ seq[a].link < seq[b].link
LinksOf(seq) == [k \in 1..Len(seq) |-> seq[k].link]
DatesByLink(seq) == {<<seq[k].link, seq[k].date>> : k \in 1..Len(seq)}
C11_NewestFirstStableOrder ==
    /\ script = "ocr_main" =>
          /\ NewestFirstStable(visited)
          /\ Done => Range(LinksOf(visited)) = {k \in 1..urls : meta[k] = <<"ok">>}
          /\ (Done /\ DatesByLink(visited) = {<<1, 1>>, <<2, 3>>, <<3, 2>>})
                => LinksOf(visited) = <<2, 3, 1>>
    /\ (script = "resolver" /\ Done /\ video_data # <<>>) =>
          /\ NewestFirstStable(csv_rows)
          /\ Range(LinksOf(csv_rows)) = {k \in 1..youtube_links : outcome[k] = "resolved"}
C11_Witness ==
    /\ script = "ocr_main" /\ Done
    /\ DatesByLink(visited) = {<<1, 1>>, <<2, 3>>, <<3, 2>>}

\* C12: every offset sec the sampler visits (sec a multiple of the interval below
\* floor(totalFrames / frameRate), and every such offset is visited) is sought at
\* frame index floor(frameRate * sec), and that index is below totalFrames.
\* frameRate is the rate the script computes with: video_flag_extractor.py puts
\* 30 in the place of a reported 0.
RateUsed ==
    IF script = "ocr" THEN OcrFps(video.stream)
    ELSE [num |-> video.stream.fpsNum, den |-> video.stream.fpsDen]
BelowDuration(sec) ==
    RateUsed.num > 0 /\ (sec + 1) * RateUsed.num <= video.stream.total * RateUsed.den
C12_FrameIndexInRange ==
    (Scanning /\ video.stream # NoStream) =>
        /\ \A s \in seeks :
              /\ s.sec % interval = 0 /\ BelowDuration(s.sec)
              /\ s.frame_num * RateUsed.den <= RateUsed.num * s.sec
              /\ RateUsed.num * s.sec < (s.frame_num + 1) * RateUsed.den
              /\ s.frame_num < video.stream.total
        /\ \A sec \in 0..(video.stream.total * RateUsed.den) :
              (sec % interval = 0 /\ BelowDuration(sec)) => \E s \in seeks : s.sec = sec
C12_Witness ==
    /\ Scanning /\ video.stream.fpsNum = 3 /\ video.stream.fpsDen = 2
    /\ \E s \in seeks : s.sec = 1 /\ s.frame_num = 1

\* C13: a metadata fetch that gives no upload date, or that fails with an error
\* that is neither rate limiting nor unavailability, is the last fetch for its
\* reference: it is made once, no pause and no further fetch follow it (every
\* pause of the reference stems from an earlier retryable failure), the
\* reference is not in the resolved list, and the loop has moved on to the next
\* reference.  get_video_metadata of video_flag_extractor.py fetches once per url.
C13_NonRetryableFetchedOnce ==
    /\ script = "resolver" =>
          \A l \in 1..youtube_links :
              outcome[l] \in SkipReasons =>
                  /\ fetches[l] = Len(pauses[l]) + 1
                  /\ l \notin Range(LinksOf(video_data))
                  /\ i > l
    /\ script = "ocr_main" =>
          \A k \in 1..urls :
              /\ Len(meta[k]) <= 1
              /\ meta[k] = <<"none">> => (k \notin Range(LinksOf(videos)) /\ midx > k)
C13_Witness ==
    /\ script = "resolver" /\ Done /\ youtube_links = 2
    /\ outcome[1] = "no date" /\ fetches[1] = 1 /\ pauses[1] = <<>>
    /\ outcome[2] = "resolved"

\* C14: the frame channel scans the samples in increasing offset order and stops
\* at the first match: the offsets handed to the recognizer are an initial part
\* of the sampled offsets, the reported offset is the smallest one whose
\* recognition gave a token, no later sample is handed to the recognizer, and
\* no temporary file of a later sample is left on disk.
SampleFileKinds == {"frame_jpg", "ocr_txt", "temp_frame"}
C14_StopsAtFirstMatch ==
    (Scanning /\ video.stream # NoStream) =>
        /\ recognised \subseteq Range(frames)
        /\ \A s \in recognised : \A t \in Range(frames) : t < s => t \in recognised
        /\ (Done /\ result.source.channel = "visual") =>
              /\ result.source.sec \in TokenFrames
              /\ \A s \in TokenFrames : s < result.source.sec => RecognitionFailed(s)
              /\ \A s \in recognised : s <= result.source.sec
              /\ \A f \in fs : f.kind \in SampleFileKinds => f.sec <= result.source.sec

\* C15: frame samples are never accumulated: at every point at most one sample
\* of the video exists, be it an image held in memory or its file on disk.
\* video_flag_extractor.py holds the images of the list `frames' from the
\* sampling until scan_video returns.
SamplesInMemory ==
    IF script = "ocr" /\ pc \in {"o_ocr", "o_remove"} THEN Range(frames) ELSE {}
SamplesOnDisk == {f.sec : f \in {g \in fs : g.kind \in {"frame_jpg", "temp_frame"}}}
C15_AtMostOneSample ==
    Scanning => Cardinality(SamplesInMemory \cup SamplesOnDisk) <= 1

\* C16: the videos are visited in list order and a stop is decided only after a
\* scan_video call has returned.  Youtube_Flag_VLM.py stops at the first token:
\* a found outcome is the last visit, and without one every video is visited.
\* video_flag_extractor.py scans all: at the end every resolved reference has
\* been visited and has an outcome, whatever the outcomes of earlier videos.
VisitedInListOrder ==
    /\ Len(visited) <= Len(videos)
    /\ \A k \in 1..Len(visited) :
          /\ visited[k].link = videos[k].link
          /\ visited[k].outcome \in ScanOutcomes
C16_BatchTermination ==
    /\ script = "vlm_main" =>
          /\ VisitedInListOrder
          /\ \A k \in 1..Len(visited) :
                visited[k].outcome = "found" => (k = Len(visited) /\ Done)
          /\ (Done /\ \A k \in 1..Len(visited) : visited[k].outcome # "found")
                => Len(visited) = Len(videos)
    /\ script = "ocr_main" =>
          /\ VisitedInListOrder
          /\ Done => Len(visited) = Len(videos)
          /\ Done => (found_any_flag <=> \E k \in 1..Len(visited) : visited[k].outcome = "found")
C16_Witness ==
    /\ script = "ocr_main" /\ Done /\ Len(visited) = 3
    /\ visited[1].outcome = "error" /\ visited[2].outcome = "found"
    /\ visited[3].outcome = "notfound"

\* C17: scan_video of video_flag_extractor.py returns either a token together
\* with the one channel that produced it, or no token and no channel; and once a
\* channel has matched, no other channel contributes: the token and its source
\* stay as they are and no further frame is recognised.
Channels == {"description", "subtitles", "visual"}
OneResult ==
    script = "ocr" =>
        /\ result.flag = None <=> result.source = NoSource
        /\ result.flag # None =>
              /\ Done /\ result.flag = flag /\ result.source = source
              /\ result.source.channel \in Channels
              /\ (result.source.channel = "visual") <=> (result.source.sec \in recognised)
              /\ result.source.channel # "visual" => (recognised = {} /\ result.source.sec = -1)
MatchIsFinal ==
    (script = "ocr" /\ flag # None)
        => (flag' = flag /\ source' = source /\ recognised' = recognised)
C17_OneResultOneChannel == []OneResult /\ [][MatchIsFinal]_vars
C17_Witness ==
    /\ script = "ocr" /\ Done /\ result.source.channel = "visual"
    /\ \E s \in Range(frames) : s > result.source.sec /\ s \in TokenFrames

\* C18: every temporary artifact a script names itself (the media file, the
\* frame directory and its files, the temporary frame images) has a name built
\* from the id of the video being processed, so that no such name serves two
\* videos of different ids.
ScriptNamedKinds == {"mp4", "frames_dir", "frame_jpg", "ocr_txt", "temp_frame"}
C18_ArtifactNamesCarryId ==
    Scanning => \A f \in created : f.kind \in ScriptNamedKinds => f.vid = video.id

\* C19: the recognised text is upper-cased and stripped of every character outside
\* A-Z, 0-9 and underscore before it is matched, and the underscore survives.
\* For a video with an empty description and no subtitle file, scanned without
\* a failure, whose frame at offset LongOffset reads "flag9z8y 7x6" (FLAG9Z8Y7X6
\* once normalized) nothing is found; when that frame reads "flag_9z8y-7x6"
\* (FLAG_9Z8Y7X6 once normalized) the result is the token FLAG_9Z8Y7X6 from the
\* frame channel at offset LongOffset.
FrameScenario ==
    /\ script = "ocr" /\ Done /\ events = {}
    /\ video.textFrom = LongOffset /\ video.description.text = <<>>
    /\ video.subs.files = {} /\ LongOffset \in recognised
C19_NormalizedFrameMatch ==
    FrameScenario =>
        /\ video.frameTxt = TxtFrameNoUnderscore => result = NoResult
        /\ video.frameTxt = TxtFrameFlag =>
              result = [flag |-> <<"F", "L", "A", "G", "_", "9", "Z", "8", "Y", "7", "X", "6">>,
                        source |-> [channel |-> "visual", sec |-> LongOffset]]
C19_Witness ==
    FrameScenario /\ video.frameTxt = TxtFrameFlag /\ result.source.sec = LongOffset

\* C20: the subtitle channel looks for <stable id>.en.vtt first and for
\* <id of the download metadata>.en.vtt second, and reads only the first one
\* that exists: its content alone decides the channel, also when the other file
\* holds a token.  When neither exists the channel gives nothing and scan_video
\* goes on to the frame channel instead of leaving through its exception
\* handler: the media file is sampled when it is on disk.
SubtitleRead ==
    IF Vtt(video.id) \in fs THEN video.subs.text[video.id]
    ELSE IF Vtt(info_dict.id) \in fs THEN video.subs.text[info_dict.id]
    ELSE <<>>
MediaWasOnDisk ==
    \/ downloaded_video_path \in created
    \/ video.stale /\ downloaded_video_path = Mp4(video.id)
C20_SubtitleCandidates ==
    (script = "ocr" /\ info_dict.present /\ ~info_dict.description.isNone
                    /\ ExpectedTextToken(info_dict.description.text) = None
                    /\ pc \notin {"o_start", "o_text"})
        => LET tok == ExpectedTextToken(SubtitleRead)
           IN  /\ tok # None =>
                     result = [flag |-> tok, source |-> [channel |-> "subtitles", sec |-> -1]]
               /\ tok = None =>
                     /\ result.source.channel # "subtitles"
                     /\ (Done /\ MediaWasOnDisk) => video.stream # NoStream
C20_Witness ==
    /\ script = "ocr" /\ Done
    /\ {Vtt(VideoId), Vtt(OtherId)} \subseteq fs
    /\ ExpectedTextToken(video.subs.text[OtherId]) # None
    /\ result.source.channel = "visual"

\* C21: the attempt counter starts at 0 for every reference: while a reference
\* is being resolved the counter is the number of its own retryable failures.
\* So the k-th pause is the same for every reference, whatever happened to the
\* references before it, and within one reference every pause is strictly
\* longer than the one before.
C21_CounterPerReference ==
    script = "resolver" =>
        /\ (pc = "r_fetch" /\ i <= youtube_links) => attempt = Len(pauses[i])
        /\ \A l, m \in Links :
              \A k \in 1..Len(pauses[l]) : k <= Len(pauses[m]) => pauses[l][k] = pauses[m][k]
        /\ \A l \in Links :
              \A k \in 1..(Len(pauses[l]) - 1) : pauses[l][k] < pauses[l][k + 1]
C21_Witness ==
    /\ script = "resolver" /\ Done /\ youtube_links = 2
    /\ Len(pauses[1]) = 2 /\ outcome[1] = "resolved"
    /\ Len(pauses[2]) = 2 /\ pauses[2][1] < pauses[2][2]

\* C22: once scan_video of video_flag_extractor.py has entered the frame channel
\* (the frames of the media file were sampled), it tries to remove the media
\* file after the frame scan and before it returns, with and without a frame
\* match: during the scan the file is on disk and no removal has been tried,
\* and on return the file is gone or its removal has failed.
FrameChannelEntered == script = "ocr" /\ video.stream # NoStream
RemovalTried == downloaded_video_path \notin fs \/ Happened("rm_media_failed")
C22_MediaRemovedAfterFrames ==
    FrameChannelEntered =>
        /\ pc \in {"o_ocr", "o_remove", "done"}
        /\ pc \in {"o_ocr", "o_remove"} => (downloaded_video_path \in fs /\ ~RemovalTried)
        /\ Done => RemovalTried
C22_Witness ==
    /\ FrameChannelEntered /\ Done
    /\ result.source.channel = "visual"
    /\ downloaded_video_path \in created /\ downloaded_video_path \notin fs

====
